---- MODULE Spec2Model ----
(***************************************************************************)
(* Model of src/code/main.py: transform_edges, transform_nodes and         *)
(* nx_from_pandas, with the pandas / networkx operations they call         *)
(* (column membership, item assignment, Series.map, rename, list           *)
(* selection, set_index/to_dict, from_pandas_edgelist,                     *)
(* set_node_attributes) modelled by what they do to a table.               *)
(*                                                                         *)
(* A table is [cols |-> sequence of labels, rows |-> sequence of rows],    *)
(* each row a sequence of cell values aligned with cols.  Labels and cell  *)
(* values are strings; "#5" stands for the integer 5, "NaN" for pandas'    *)
(* missing value and "None" for Python's None.  Every column name passed   *)
(* is a string and every color_map a dict, so the isinstance assertions    *)
(* of the source always pass; the tables the caller builds have distinct   *)
(* column labels.  The caller owns one edge table and (optionally) one     *)
(* node table, calls one of the three functions with arguments of the      *)
(* bounded sets below, and may then make the same call again.              *)
(***************************************************************************)
EXTENDS Naturals, Sequences, FiniteSets, TLC

VARIABLES edges_df, nodes_df, call, result

vars == <<edges_df, nodes_df, call, result>>

(* Bounds of the model. *)
MaxRows == 3
MaxNodeRows == 2

None == "None"
NaN == "NaN"

(* ---------------------------------------------------------------------- *)
(* Sequences                                                              *)
(* ---------------------------------------------------------------------- *)
Range(s) == {s[i] : i \in DOMAIN s}

SeqsUpTo(S, n) == UNION {[1..k -> S] : k \in 0..n}

Count(s, x) == Cardinality({i \in DOMAIN s : s[i] = x})

Min(a, b) == IF a <= b THEN a ELSE b

RECURSIVE MinLen(_)
MinLen(ss) ==
    IF Len(ss) = 1 THEN Len(ss[1]) ELSE Min(Len(ss[1]), MinLen(Tail(ss)))

(* The positions of label c in cols, in order, from position i on. *)
RECURSIVE PosFrom(_, _, _)
PosFrom(cols, c, i) ==
    IF i > Len(cols) THEN <<>>
    ELSE (IF cols[i] = c THEN <<i>> ELSE <<>>) \o PosFrom(cols, c, i + 1)

(* ---------------------------------------------------------------------- *)
(* pandas operations used by the source                                   *)
(* ---------------------------------------------------------------------- *)
NoFrame == [cols |-> <<>>, rows |-> <<>>]

NoTable == [cols |-> <<None>>, rows |-> <<>>]

(* `col in df.columns` *)
HasColumn(df, c) == c \in Range(df.cols)

(* df[c] for a label that occurs once: the Series of its values. *)
Column(df, c) ==
    LET p == PosFrom(df.cols, c, 1)[1]
    IN [r \in 1..Len(df.rows) |-> df.rows[r][p]]

(* The palettes a caller may pass as color_map, by name. *)
Palette(color_map) == [x |-> "red", y |-> "blue"]

(* A faulty map that keeps a value that is no key of the dict. *)
MapPassThrough(series, dict) ==
    [r \in DOMAIN series |->
        IF series[r] \in DOMAIN dict THEN dict[series[r]] ELSE series[r]]

(* Series.map(dict): a value that is no key of the dict becomes NaN. *)
Map(series, dict) ==
    [r \in DOMAIN series |->
        IF series[r] \in DOMAIN dict THEN dict[series[r]] ELSE NaN]

(* str(v) of a cell value, as Series.astype(str) applies it. *)
Str(v) ==
    CASE v = "#5" -> "5"
      [] v = "#7" -> "7"
      [] v = NaN -> "nan"
      [] OTHER -> v

AsTypeStr(series) == [r \in DOMAIN series |-> Str(series[r])]

(* df[c] = series: overwrites the column labelled c in place, or appends *)
(* a new last column.                                                     *)
SetItem(df, c, series) ==
    IF HasColumn(df, c)
    THEN LET p == PosFrom(df.cols, c, 1)[1]
         IN [df EXCEPT !.rows =
                [r \in DOMAIN df.rows |-> [df.rows[r] EXCEPT ![p] = series[r]]]]
    ELSE [cols |-> Append(df.cols, c),
          rows |-> [r \in DOMAIN df.rows |-> Append(df.rows[r], series[r])]]

(* df.rename(columns={old: new}): a new table, every label old replaced. *)
Rename(df, old, new) ==
    [df EXCEPT !.cols = [i \in DOMAIN df.cols |->
                            IF df.cols[i] = old THEN new ELSE df.cols[i]]]

(* The column indexer of df[keys]: for each key, in order, every position *)
(* that carries the label.                                                *)
RECURSIVE Indexer(_, _)
Indexer(cols, keys) ==
    IF keys = <<>> THEN <<>>
    ELSE PosFrom(cols, Head(keys), 1) \o Indexer(cols, Tail(keys))

Take(df, idx) ==
    [cols |-> [j \in 1..Len(idx) |-> df.cols[idx[j]]],
     rows |-> [r \in 1..Len(df.rows) |->
                  [j \in 1..Len(idx) |-> df.rows[r][idx[j]]]]]

(* df[keys] raises KeyError unless every key is a label of df. *)
HasAll(df, keys) == \A i \in DOMAIN keys : HasColumn(df, keys[i])

Select(df, keys) == Take(df, Indexer(df.cols, keys))

(* Iterating df[c]: the values of the column when the label occurs once;  *)
(* when it occurs several times df[c] is a DataFrame and iterating it     *)
(* yields its column labels.                                              *)
IterCol(df, c) ==
    IF Count(df.cols, c) = 1 THEN Column(df, c)
    ELSE [i \in 1..Count(df.cols, c) |-> c]

(* DataFrame.set_index(id).to_dict(orient='index') of a table in which the *)
(* label id occurs once: ValueError unless the index values are unique;   *)
(* otherwise one entry per index value, holding the other labels' cells   *)
(* (of several columns with one label the last one wins).                 *)
(* A faulty to_dict that accepts a repeated index value. *)
IndexIsUniqueUnchecked(df, id) == TRUE

IndexIsUnique(df, id) ==
    \A r1, r2 \in DOMAIN df.rows :
        Column(df, id)[r1] = Column(df, id)[r2] => r1 = r2

LastPos(cols, c) == LET p == PosFrom(cols, c, 1) IN p[Len(p)]

ToDictIndex(df, id) ==
    [k \in Range(Column(df, id)) |->
        LET r == CHOOSE q \in DOMAIN df.rows : Column(df, id)[q] = k
        IN [c \in Range(df.cols) \ {id} |-> df.rows[r][LastPos(df.cols, c)]]]

(* ---------------------------------------------------------------------- *)
(* transform_edges                                                        *)
(* ---------------------------------------------------------------------- *)
(* The assertions that every column named by the caller exists. *)
EdgesColumnsExist(df, source, target, color, hover) ==
    \A c \in {source, target, color, hover} \ {None} : HasColumn(df, c)

(* A faulty branch that lets a half-given color / color_map pass. *)
EdgesColorBranchLenient(color, color_map) ==
    IF color # None /\ color_map # None THEN "derive" ELSE "skip"

(* The if / elif / elif on color and color_map. *)
EdgesColorBranch(color, color_map) ==
    IF color # None /\ color_map # None THEN "derive"
    ELSE IF color # None /\ color_map = None THEN "TypeError"
    ELSE IF color = None /\ color_map # None THEN "TypeError"
    ELSE "skip"

(* The names collected in cols. *)
EdgesCols(source, target, branch, hover) ==
    <<source, target>>
        \o (IF branch = "derive" THEN <<"color">> ELSE <<>>)
        \o (IF hover # None THEN <<"title">> ELSE <<>>)

(* A faulty return of the whole table instead of edges_df[cols]. *)
EdgesReturnWhole(df, cols) == df

(* `return edges_df[cols]` *)
EdgesReturn(df, cols) == Select(df, cols)

(* The whole call: status is "ok" or the exception raised, value the      *)
(* returned table, df the caller's table object after the call.           *)
TransformEdges(df, source, target, color, color_map, hover) ==
    IF ~EdgesColumnsExist(df, source, target, color, hover)
    THEN [status |-> "AssertionError", value |-> NoFrame, df |-> df]
    ELSE LET branch == EdgesColorBranch(color, color_map)
             df1 == IF branch = "derive"
                    THEN SetItem(df, "color",
                                 Map(Column(df, color), Palette(color_map)))
                    ELSE df
             df2 == IF hover # None THEN Rename(df1, hover, "title") ELSE df1
             cols == EdgesCols(source, target, branch, hover)
         IN IF branch = "TypeError"
            THEN [status |-> "TypeError", value |-> NoFrame, df |-> df]
            ELSE IF ~HasAll(df2, cols)
            THEN [status |-> "KeyError", value |-> NoFrame, df |-> df1]
            ELSE [status |-> "ok", value |-> EdgesReturn(df2, cols), df |-> df1]

(* ---------------------------------------------------------------------- *)
(* transform_nodes                                                        *)
(* ---------------------------------------------------------------------- *)
NodesColumnsExist(df, id, label, color, hover) ==
    \A c \in {id, label, color, hover} \ {None} : HasColumn(df, c)

NodesColorBranch(color, color_map) ==
    IF color # None /\ color_map # None THEN "derive"
    ELSE IF color # None /\ color_map = None THEN "TypeError"
    ELSE IF color = None /\ color_map # None THEN "TypeError"
    ELSE "skip"

NodesCols(id, label, branch, hover) ==
    <<id>>
        \o (IF label # None THEN <<"label">> ELSE <<>>)
        \o (IF branch = "derive" THEN <<"color">> ELSE <<>>)
        \o (IF hover # None THEN <<"title">> ELSE <<>>)

NoDict == [k \in {} |-> [c \in {} |-> NaN]]

(* The whole call; it works on a deep copy, the caller's table is not     *)
(* touched.                                                               *)
TransformNodes(df, id, label, color, color_map, hover) ==
    IF ~NodesColumnsExist(df, id, label, color, hover)
    THEN [status |-> "AssertionError", value |-> NoDict]
    ELSE LET branch == NodesColorBranch(color, color_map)
             t1 == IF label # None
                   THEN SetItem(df, "label", AsTypeStr(Column(df, label)))
                   ELSE df
             t2 == IF branch = "derive"
                   THEN SetItem(t1, "color",
                                Map(Column(t1, color), Palette(color_map)))
                   ELSE t1
             t3 == IF hover # None THEN Rename(t2, hover, "title") ELSE t2
             cols == NodesCols(id, label, branch, hover)
         IN IF branch = "TypeError"
            THEN [status |-> "TypeError", value |-> NoDict]
            ELSE IF ~HasAll(t3, cols)
            THEN [status |-> "KeyError", value |-> NoDict]
            ELSE IF ~IndexIsUnique(Select(t3, cols), id)
            THEN [status |-> "ValueError", value |-> NoDict]
            ELSE [status |-> "ok", value |-> ToDictIndex(Select(t3, cols), id)]

(* ---------------------------------------------------------------------- *)
(* networkx operations used by the source                                 *)
(* ---------------------------------------------------------------------- *)
(* A graph (nx.Graph: undirected, one edge per pair of endpoints):        *)
(* node |-> attribute record of each node, edge |-> attribute record of   *)
(* each edge, an edge being the set of its endpoints.                     *)
NoAttrs == [c \in {} |-> NaN]

EmptyGraph == [node |-> [n \in {} |-> NoAttrs], edge |-> [e \in {} |-> NoAttrs]]

(* dict.update *)
Update(d, e) ==
    [k \in DOMAIN d \cup DOMAIN e |-> IF k \in DOMAIN e THEN e[k] ELSE d[k]]

(* dict(zip(keys, values)): of a repeated key the last value stays. *)
ZipDict(keys, values) ==
    LET n == Min(Len(keys), Len(values))
    IN [k \in {keys[i] : i \in 1..n} |->
            values[CHOOSE i \in 1..n :
                      keys[i] = k /\ \A j \in 1..n : keys[j] = k => j <= i]]

(* G.add_edge(s, t) followed by G[s][t].update(attrs) *)
AddEdge(g, s, t, attrs) ==
    [node |-> [n \in DOMAIN g.node \cup {s, t} |->
                  IF n \in DOMAIN g.node THEN g.node[n] ELSE NoAttrs],
     edge |-> [e \in DOMAIN g.edge \cup {{s, t}} |->
                  IF e = {s, t}
                  THEN Update(IF e \in DOMAIN g.edge THEN g.edge[e] ELSE NoAttrs,
                              attrs)
                  ELSE g.edge[e]]]

(* The loop `for s, t, attrs in zip(df[source], df[target], attribute_data)` *)
(* over the first n triples.                                              *)
RECURSIVE AddEdges(_, _, _, _, _, _)
AddEdges(g, src, tgt, headings, data, n) ==
    IF n = 0 THEN g
    ELSE AddEdge(AddEdges(g, src, tgt, headings, data, n - 1),
                 src[n], tgt[n],
                 ZipDict(headings, [j \in DOMAIN headings |-> data[j][n]]))

(* from_pandas_edgelist(df, source, target, edge_attr) with the default   *)
(* create_using; edge_attr = <<>> stands for edge_attr=None.  zip stops   *)
(* at its shortest argument.                                              *)
FromPandasEdgelist(df, source, target, edge_attr) ==
    LET src == IterCol(df, source)
        tgt == IterCol(df, target)
        data == [j \in DOMAIN edge_attr |-> IterCol(df, edge_attr[j])]
        n == IF edge_attr = <<>> THEN Min(Len(src), Len(tgt))
             ELSE Min(Min(Len(src), Len(tgt)), MinLen(data))
    IN AddEdges(EmptyGraph, src, tgt, edge_attr, data, n)

(* set_node_attributes(G, values) with a dict of dicts: a key that is no  *)
(* node of G is skipped.                                                  *)
SetNodeAttributes(g, values) ==
    [g EXCEPT !.node = [n \in DOMAIN g.node |->
                           IF n \in DOMAIN values
                           THEN Update(g.node[n], values[n])
                           ELSE g.node[n]]]

(* ---------------------------------------------------------------------- *)
(* nx_from_pandas                                                         *)
(* ---------------------------------------------------------------------- *)
(* `[col for col in edges_df.columns if col not in ['src', 'dst']]` *)
EdgeAttr(cols, edges_source, edges_target) ==
    SelectSeq(cols, LAMBDA c : c \notin {"src", "dst"})

NxFromPandas(e_df, edges_source, edges_target, edges_color, edges_color_map, edges_hover, n_df, nodes_id, nodes_label, nodes_color, nodes_color_map, nodes_hover) ==
    LET te == TransformEdges(e_df, edges_source, edges_target, edges_color,
                             edges_color_map, edges_hover)
        tn == TransformNodes(n_df, nodes_id, nodes_label, nodes_color,
                             nodes_color_map, nodes_hover)
        edge_attr == EdgeAttr(te.value.cols, edges_source, edges_target)
        G == FromPandasEdgelist(te.value, edges_source, edges_target, edge_attr)
    IN IF te.status # "ok"
       THEN [status |-> te.status, value |-> EmptyGraph, df |-> te.df]
       ELSE IF n_df # NoTable /\ tn.status # "ok"
       THEN [status |-> tn.status, value |-> EmptyGraph, df |-> te.df]
       ELSE [status |-> "ok",
             value |-> IF n_df # NoTable THEN SetNodeAttributes(G, tn.value)
                       ELSE G,
             df |-> te.df]

(* ---------------------------------------------------------------------- *)
(* The caller: its tables and the arguments it passes                     *)
(* ---------------------------------------------------------------------- *)
(* Edge tables: the one of the end-to-end example (src, dst, weight) and  *)
(* one with other endpoint names that already has columns named color and *)
(* title.  "x" is a key of the palette, "q" is not.                       *)
EdgeTables ==
    {[cols |-> <<"src", "dst", "weight">>, rows |-> r] :
        r \in SeqsUpTo({<<"A", "B", "#5">>, <<"B", "A", "#5">>}, MaxRows)}
    \cup
    {[cols |-> <<"a", "b", "color", "title">>, rows |-> r] :
        r \in SeqsUpTo({<<"A", "A", "x", "t1">>, <<"B", "A", "q", "t2">>},
                       MaxRows)}

(* Node tables; identifier "C" is no endpoint of any edge table. *)
NodeTables ==
    {[cols |-> <<"id", "name", "cat", "note">>, rows |-> r] :
        r \in SeqsUpTo({<<"A", "#7", "x", "h1">>, <<"C", "#7", "q", "h2">>},
                       MaxNodeRows)}

(* Column-name arguments: "zz" is a column of no table. *)
ColumnsFrom(df, i) == {df.cols[j] : j \in i..Len(df.cols)}

SourceArgs(df) == {df.cols[1], "zz"}

TargetArgs(df) == {df.cols[2]}

ColorArgs(df) == {None, "zz"} \cup ColumnsFrom(df, 3)

ColorMapArgs == {None, "palette"}

HoverArgs(df) == {None} \cup ColumnsFrom(df, 2)

IdArgs == {"id", "zz"}

LabelArgs == {None, "name"}

NodeColorArgs == {None, "cat", "zz"}

NodeHoverArgs == {None, "note", "id"}

NoCall ==
    [op |-> None, source |-> None, target |-> None, color |-> None,
     color_map |-> None, hover |-> None, id |-> None, label |-> None,
     ncolor |-> None, ncolor_map |-> None, nhover |-> None]

NoResult ==
    [status |-> None, table |-> NoFrame, dict |-> NoDict, graph |-> EmptyGraph]

Init ==
    /\ edges_df \in EdgeTables
    /\ nodes_df \in NodeTables \cup {NoTable}
    /\ call = NoCall
    /\ result = NoResult

(* The effect of the call c on the caller's tables: transform_edges and   *)
(* nx_from_pandas hand back the edge table object they were given,        *)
(* transform_nodes works on a copy.                                       *)
Invoke(c) ==
    LET te == TransformEdges(edges_df, c.source, c.target, c.color,
                             c.color_map, c.hover)
        tn == TransformNodes(nodes_df, c.id, c.label, c.ncolor, c.ncolor_map,
                             c.nhover)
        nx == NxFromPandas(edges_df, c.source, c.target, c.color, c.color_map,
                           c.hover, nodes_df, c.id, c.label, c.ncolor,
                           c.ncolor_map, c.nhover)
    IN /\ call' = c
       /\ nodes_df' = nodes_df
       /\ CASE c.op = "transform_edges" ->
                 /\ result' = [NoResult EXCEPT !.status = te.status,
                                               !.table = te.value]
                 /\ edges_df' = te.df
            [] c.op = "transform_nodes" ->
                 /\ result' = [NoResult EXCEPT !.status = tn.status,
                                               !.dict = tn.value]
                 /\ edges_df' = edges_df
            [] c.op = "nx_from_pandas" ->
                 /\ result' = [NoResult EXCEPT !.status = nx.status,
                                               !.graph = nx.value]
                 /\ edges_df' = nx.df

(* The caller's first call: transform_edges on its edge table. *)
CallTransformEdges ==
    /\ call = NoCall
    /\ \E source \in SourceArgs(edges_df), target \in TargetArgs(edges_df),
          color \in ColorArgs(edges_df), color_map \in ColorMapArgs,
          hover \in HoverArgs(edges_df) :
        Invoke([NoCall EXCEPT !.op = "transform_edges", !.source = source,
                   !.target = target, !.color = color,
                   !.color_map = color_map, !.hover = hover])

(* The caller's first call: transform_nodes on its node table. *)
CallTransformNodes ==
    /\ call = NoCall
    /\ nodes_df # NoTable
    /\ \E id \in IdArgs, label \in LabelArgs, color \in NodeColorArgs,
          color_map \in ColorMapArgs, hover \in NodeHoverArgs :
        Invoke([NoCall EXCEPT !.op = "transform_nodes", !.id = id,
                   !.label = label, !.ncolor = color,
                   !.ncolor_map = color_map, !.nhover = hover])

(* The caller's first call: nx_from_pandas on its tables (with the node   *)
(* arguments left at None when it has no node table).                     *)
CallNxFromPandas ==
    /\ call = NoCall
    /\ \E source \in SourceArgs(edges_df), target \in TargetArgs(edges_df),
          color \in ColorArgs(edges_df), color_map \in ColorMapArgs,
          hover \in HoverArgs(edges_df),
          id \in IF nodes_df = NoTable THEN {None} ELSE {"id"},
          label \in IF nodes_df = NoTable THEN {None} ELSE LabelArgs,
          ncolor \in IF nodes_df = NoTable THEN {None} ELSE {None, "cat"},
          ncolor_map \in IF nodes_df = NoTable THEN {None} ELSE ColorMapArgs :
        Invoke([op |-> "nx_from_pandas", source |-> source, target |-> target,
                color |-> color, color_map |-> color_map, hover |-> hover,
                id |-> id, label |-> label, ncolor |-> ncolor,
                ncolor_map |-> ncolor_map, nhover |-> None])

(* The caller makes the same call again: same function, same table        *)
(* objects, same arguments.                                               *)
RepeatCall ==
    /\ call # NoCall
    /\ Invoke(call)

Next ==
    \/ CallTransformEdges
    \/ CallTransformNodes
    \/ CallNxFromPandas
    \/ RepeatCall

Spec == Init /\ [][Next]_vars

(* ---------------------------------------------------------------------- *)
(* Properties                                                             *)
(* ---------------------------------------------------------------------- *)
IsEdgesCall == call.op = "transform_edges"

IsNodesCall == call.op = "transform_nodes"

IsNxCall == call.op = "nx_from_pandas"

Returned == result.status = "ok"

(* Both of color and color_map / exactly one of them were passed. *)
BothGiven(color, color_map) == color # None /\ color_map # None

OneGiven(color, color_map) == (color = None) # (color_map = None)

(* The color a palette of {"x": "red", "y": "blue"} gives a value. *)
Lookup(v) == IF v = "x" THEN "red" ELSE IF v = "y" THEN "blue" ELSE NaN

(* Every column name the call passes for the edge / node table is one of  *)
(* the table's columns.                                                   *)
EdgeNamesExist ==
    {call.source, call.target, call.color, call.hover} \ {None}
        \subseteq Range(edges_df.cols)

NodeNamesExist ==
    {call.id, call.label, call.ncolor, call.nhover} \ {None}
        \subseteq Range(nodes_df.cols)

(* The derived columns the call asks of the edge / node table. *)
EdgeDerived ==
    (IF BothGiven(call.color, call.color_map) THEN {"color"} ELSE {})
        \cup (IF call.hover # None THEN {"title"} ELSE {})

NodeDerived ==
    (IF call.label # None THEN {"label"} ELSE {})
        \cup (IF BothGiven(call.ncolor, call.ncolor_map) THEN {"color"} ELSE {})
        \cup (IF call.nhover # None THEN {"title"} ELSE {})

NodeIds == {nodes_df.rows[r][1] : r \in DOMAIN nodes_df.rows}

NodeIdsDistinct ==
    \A r1, r2 \in DOMAIN nodes_df.rows :
        nodes_df.rows[r1][1] = nodes_df.rows[r2][1] => r1 = r2

(* C1: whenever transform_edges returns, the returned table's column list *)
(* is exactly source, target, then color iff color and color_map were     *)
(* given, then title iff hover was given, each once, with one row per     *)
(* input row.                                                             *)
C1_ColumnsExactlyRequested ==
    (IsEdgesCall /\ Returned) =>
        /\ result.table.cols =
              <<call.source, call.target>>
                  \o (IF BothGiven(call.color, call.color_map)
                      THEN <<"color">> ELSE <<>>)
                  \o (IF call.hover # None THEN <<"title">> ELSE <<>>)
        /\ Len(result.table.rows) = Len(edges_df.rows)

(* C2: no call, returning or raising, changes the caller's edge table or  *)
(* node table.                                                            *)
C2_CallerTablesUnchanged ==
    [][edges_df' = edges_df /\ nodes_df' = nodes_df]_vars

(* C3 as stated: with exactly one of color / color_map given,             *)
(* transform_edges and transform_nodes always fail with TypeError.        *)
C3_AlwaysTypeError ==
    /\ (IsEdgesCall /\ OneGiven(call.color, call.color_map))
            => result.status = "TypeError"
    /\ (IsNodesCall /\ OneGiven(call.ncolor, call.ncolor_map))
            => result.status = "TypeError"

(* C3 amended: with exactly one of color / color_map given, the call      *)
(* fails with TypeError when every column name it passes is a column of   *)
(* the table, and with the column-not-found AssertionError when one is    *)
(* not; it never returns.                                                 *)
C3_TypeErrorAfterColumnCheck ==
    /\ (IsEdgesCall /\ OneGiven(call.color, call.color_map)) =>
            result.status =
                IF EdgeNamesExist THEN "TypeError" ELSE "AssertionError"
    /\ (IsNodesCall /\ OneGiven(call.ncolor, call.ncolor_map)) =>
            result.status =
                IF NodeNamesExist THEN "TypeError" ELSE "AssertionError"

C3_Witness ==
    /\ IsNodesCall
    /\ call.ncolor = "cat"
    /\ call.ncolor_map = None
    /\ call.label = "name"
    /\ result.status = "TypeError"

(* C4 as stated: through nx_from_pandas every column that is neither      *)
(* source, target nor a styling column is an attribute of every edge, and *)
(* an edge has no color / title attribute that was not requested.         *)
C4_OtherColumnsPassedThrough ==
    (IsNxCall /\ Returned) =>
        \A e \in DOMAIN result.graph.edge :
            /\ Range(edges_df.cols)
                  \ {call.source, call.target, call.color, call.hover,
                     "color", "title"}
                  \subseteq DOMAIN result.graph.edge[e]
            /\ (call.color = None /\ call.hover = None) =>
                  DOMAIN result.graph.edge[e] \cap {"color", "title"} = {}

(* C4 amended: only columns of the transformed table are carried: every   *)
(* edge's attribute keys lie within source, target, color and title, so   *)
(* any other column (weight) is dropped; with source = src and target =   *)
(* dst the keys are exactly the derived columns, none in the example.     *)
C4_OnlyTransformedColumnsCarried ==
    (IsNxCall /\ Returned) =>
        \A e \in DOMAIN result.graph.edge :
            /\ DOMAIN result.graph.edge[e]
                  \subseteq {call.source, call.target, "color", "title"}
            /\ (call.source = "src" /\ call.target = "dst") =>
                  DOMAIN result.graph.edge[e] = EdgeDerived

C4_Witness ==
    /\ IsNxCall
    /\ Returned
    /\ call.source = "src"
    /\ call.target = "dst"
    /\ call.color = None
    /\ call.hover = None
    /\ edges_df = [cols |-> <<"src", "dst", "weight">>,
                   rows |-> <<<<"A", "B", "#5">>>>]
    /\ DOMAIN result.graph.edge = {{"A", "B"}}
    /\ DOMAIN result.graph.edge[{"A", "B"}] = {}

(* C5: for every source and target name, the attribute keys of every edge *)
(* are the transformed table's columns other than source and target; the  *)
(* source and target names are never attribute keys.                      *)
C5_EndpointNamesAreNoAttributes ==
    (IsNxCall /\ Returned) =>
        \A e \in DOMAIN result.graph.edge :
            DOMAIN result.graph.edge[e] = EdgeDerived \ {call.source, call.target}

(* C6: every row is its own edge: the graph has as many edges as the edge *)
(* table has rows.                                                        *)
C6_OneEdgePerRow ==
    (IsNxCall /\ Returned) =>
        Cardinality(DOMAIN result.graph.edge) = Len(edges_df.rows)

C8_NodesAreTheEndpoints ==
    (IsNxCall /\ Returned) =>
        /\ DOMAIN result.graph.node =
              Range(Column(edges_df, call.source))
                  \cup Range(Column(edges_df, call.target))
        /\ \A n \in DOMAIN result.graph.node :
              DOMAIN result.graph.node[n] =
                  IF nodes_df # NoTable /\ n \in NodeIds THEN NodeDerived ELSE {}

(* C9: when color and color_map are both given, the derived color of each *)
(* row of the table transform_edges returns, and of each entry            *)
(* transform_nodes returns, is the palette's value for the row's value in *)
(* the color column, and the missing value when the palette has no such   *)
(* key; a value the palette lacks does not make the call fail.            *)
C9_ColorIsPaletteLookup ==
    [][/\ (call'.op = "transform_edges"
              /\ BothGiven(call'.color, call'.color_map)) =>
            /\ result'.status = "ok" =>
                  \A r \in DOMAIN edges_df.rows :
                      result'.table.rows[r][3] =
                          Lookup(Column(edges_df, call'.color)[r])
            /\ ({call'.source, call'.target, call'.color}
                    \subseteq Range(edges_df.cols) /\ call'.hover = None) =>
                  result'.status = "ok"
       /\ (call'.op = "transform_nodes"
              /\ BothGiven(call'.ncolor, call'.ncolor_map)) =>
            /\ result'.status = "ok" =>
                  \A r \in DOMAIN nodes_df.rows :
                      result'.dict[nodes_df.rows[r][1]].color =
                          Lookup(Column(nodes_df, call'.ncolor)[r])
            /\ ({call'.id, call'.ncolor} \subseteq Range(nodes_df.cols)
                    /\ call'.label = None /\ call'.nhover = None
                    /\ NodeIdsDistinct) =>
                  result'.status = "ok"
      ]_vars

C9_Witness ==
    /\ IsEdgesCall
    /\ Returned
    /\ call.color = "color"
    /\ call.color_map = "palette"
    /\ Len(result.table.rows) = 2
    /\ result.table.rows[1][3] = "red"
    /\ result.table.rows[2][3] = NaN

(* C10: a call of transform_edges or nx_from_pandas made again with the   *)
(* same table object and the same arguments has the same outcome.         *)
C10_RepeatedCallSameOutcome ==
    [][(call' = call /\ call.op \in {"transform_edges", "nx_from_pandas"})
          => result' = result]_vars

====
